---- MODULE Spec2Model ----
(***************************************************************************)
(* Automaton-diagram editor of the AI tutor: the AutomataCanvas component  *)
(* (src/app/page.tsx:325-650).  One canvas instance holds nodes, edges,    *)
(* stateCounter and mode; user gestures and AI draw-command batches mutate *)
(* them.  Handlers run to completion on the UI event loop: while the       *)
(* draw-commands effect is inside its for-loop (pc = "loop") no gesture is *)
(* enabled, and nodes/edges/stateCounter are written only when the effect  *)
(* publishes its working copies after the last command.                    *)
(*                                                                         *)
(* Strings the code builds by concatenation (node and edge ids) are kept   *)
(* as records of their parts.  Date.now() is the variable now; every       *)
(* handler that reads it sits behind a blocking prompt or a network round  *)
(* trip, so two handlers never read the same millisecond.                  *)
(*                                                                         *)
(* The page (Home, src/app/page.tsx:14-186) mounts two canvas instances    *)
(* and the chat (src/unnamed/part_000), whose replies hand their draw      *)
(* commands to both canvases through aiDrawCommands.                       *)
(***************************************************************************)
EXTENDS Integers, Sequences, FiniteSets, TLC

\* ---------------------------------------------------------------- bounds
MaxCounter == 3
MaxClock == 2
MaxBatchLen == 3
MaxEdges == 2
MaxMessages == 5

\* ------------------------------------------------------- input alphabets
Labels == {"A", "B"}
Symbols == {"x", "y"}
Null == "<null>"
\* what the user may type into a label prompt (Null: prompt cancelled)
LabelAnswers == {Null, "", " A", "A", "B"}
\* what the user may type into a symbol prompt
SymbolAnswers == {Null, "", "x", "y"}
Modes == {"state", "transition", "edit", "start", "accept", "delete"}
NoHandle == "none"
SourceHandles == {"bottom", "right"}
TargetHandles == {"top", "left"}
\* canvas-space points: where the user clicks the pane and where a drag
\* drops a node
Origin == [x |-> 0, y |-> 0]
OffGrid == [x |-> 25, y |-> 45]
ClickPositions == {Origin, OffGrid}
DragPositions == {OffGrid}
\* what the chat box may hold
Inputs == {"", " ", "q"}
\* the problem statements the user may set
Problems == {"p1", "p2"}

\* String.prototype.trim on the strings the prompts can return
trim(s) == CASE s = " A" -> "A"
             [] s = " q" -> "q"
             [] s = " " -> ""
             [] OTHER -> s

\* the draw commands a chat response may carry
AddStateCmds ==
  [type : {"addState"}, label : Labels, isStart : BOOLEAN, isAccept : BOOLEAN]
AddTransitionCmds ==
  [type : {"addTransition"}, from : Labels, to : Labels, symbol : Symbols]
ClearCmds == [type : {"clearCanvas"}]
Commands == AddStateCmds \cup AddTransitionCmds \cup ClearCmds
\* the value of a field the command does not have
Undefined == "<undefined>"

\* ------------------------------------------------------------------ state
VARIABLES
  nodes,         \* useNodesState: sequence of state nodes
  edges,         \* useEdgesState: sequence of transition edges
  stateCounter,  \* useState(0)
  mode,          \* useState('state')
  now,           \* last value Date.now() returned
  pc,            \* "idle", or "loop" while the draw-commands effect runs
  idx,           \* number of commands of the batch consumed so far
  newNodes,      \* working copies of the draw-commands effect
  newEdges,
  newCounter,
  outcome,       \* branch the loop body took for the command just processed
  idLog,         \* node ids handed out since the diagram was last cleared
  timers,        \* pending snapshot timers of this canvas, oldest first,
                 \* each with the nodes and edges its callback closes over
  canvasContext, \* useState(null) of the page: <<>> or <<the last snapshot>>
  mirror,        \* the second AutomataCanvas instance the page mounts
  delivered,     \* what this canvas last passed to onCanvasUpdate, if anything
  aiDrawCommands,    \* useState([]) of the page: the array both canvases get
  reactFlowInstance, \* useState(null) of the canvas: has onInit handed it over
  runs,          \* times the command loop has run on the array in aiDrawCommands
  messages,      \* useState of the chat: the conversation, oldest first
  input,         \* useState('') of the chat: the text in the box
  isLoading,     \* useState(false) of the chat
  usage,         \* count stored under 'ai-tutor-usage' for today
  pending,       \* chat requests sent and not yet resolved or failed
  problemContext, \* useState(null) of the page
  submitted      \* branch the last handleSubmit took

vars == <<nodes, edges, stateCounter, mode, now, pc, idx,
          newNodes, newEdges, newCounter, outcome, idLog,
          timers, canvasContext, mirror, delivered,
          aiDrawCommands, reactFlowInstance, runs,
          messages, input, isLoading, usage, pending, problemContext,
          submitted>>
chat == <<messages, input, isLoading, usage, pending, problemContext,
          submitted>>
feed == <<aiDrawCommands, reactFlowInstance, runs>>
page == <<canvasContext, mirror, delivered, chat, feed>>
canvas == <<nodes, edges, stateCounter>>
effect == <<pc, idx, newNodes, newEdges, newCounter, outcome>>

\* ---------------------------------------------------------------- helpers
Range(s) == {s[i] : i \in DOMAIN s}
Max(a, b) == IF a >= b THEN a ELSE b

AiId(n) == [kind |-> "ai", n |-> n]
ManualId(t) == [kind |-> "state", n |-> t]

\* faulty variant: the check reads n.label, which no node has, so it never matches
hasLabelTopLevel(ns, l) == \E i \in DOMAIN ns : FALSE

\* nodes.some(n => n.data.label === l)
hasLabel(ns, l) == \E i \in DOMAIN ns : ns[i].data.label = l
\* Array.prototype.find: first element with the label
findByLabel(ns, l) ==
  ns[CHOOSE i \in DOMAIN ns :
       /\ ns[i].data.label = l
       /\ \A j \in DOMAIN ns : ns[j].data.label = l => i <= j]

\* nodes.reduce over /ai-(\d+)/ matches, starting from 0
RECURSIVE maxId(_)
maxId(ns) ==
  IF ns = <<>> THEN 0
  ELSE LET rest == maxId(Tail(ns))
           node == Head(ns)
       IN IF node.id.kind = "ai" THEN Max(rest, node.id.n) ELSE rest

\* the snapshot effect: its cleanup clears the timer the previous run set,
\* then a new timer is set that closes over the nodes and edges of the render
\* behind: a timer of the second canvas, set earlier, is still pending (the
\* timers all wait the same 500 ms, so they fire in the order they were set)
setTimeout(ns, es, behind) == [nodes |-> ns, edges |-> es, behind |-> behind]
\* faulty variant: the effect returns no cleanup
clearTimeoutMissing(ts) == ts
clearTimeout(ts) == IF ts = <<>> THEN <<>> ELSE SubSeq(ts, 1, Len(ts) - 1)
\* faulty variant: the effect clears the old timer and sets no new one
debounceNoTimer(ts, ns, es) == clearTimeout(ts)
debounce(ts, ns, es) ==
  Append(clearTimeout(ts), setTimeout(ns, es, mirror.timers # <<>>))

\* the first message of a conversation
Greeting == [role |-> "assistant", content |-> "greeting"]

\* the chat as it is mounted, before anything is typed
InitChat ==
  /\ messages = <<Greeting>>
  /\ input = ""
  /\ isLoading = FALSE
  /\ pending = 0
  /\ problemContext = Null
  /\ submitted = "none"

\* a canvas as it is mounted, with the diagram empty; instance: whether
\* onInit has already handed over the ReactFlow instance
InitCanvas(instance) ==
  /\ nodes = <<>>
  /\ edges = <<>>
  /\ stateCounter = 0
  /\ mode = "state"
  /\ now = 0
  /\ pc = "idle"
  /\ idx = 0
  /\ newNodes = <<>>
  /\ newEdges = <<>>
  /\ newCounter = 0
  /\ outcome = "none"
  /\ idLog = <<>>
  /\ timers = <<setTimeout(<<>>, <<>>, FALSE)>>
  /\ canvasContext = <<>>
  /\ delivered = <<>>
  /\ mirror = [nodes |-> <<>>, edges |-> <<>>, stateCounter |-> 0,
               timers |-> <<setTimeout(<<>>, <<>>, FALSE)>>,
               reactFlowInstance |-> instance]
  /\ aiDrawCommands = <<>>
  /\ reactFlowInstance = instance
  /\ runs = 0

\* the page right after its canvases are mounted, before ReactFlow has
\* called onInit, with nothing sent today
Mounted ==
  /\ InitCanvas(FALSE)
  /\ InitChat
  /\ usage = 0

\* the page with both canvases initialised and nothing sent today
Init ==
  /\ InitCanvas(TRUE)
  /\ InitChat
  /\ usage = 0

\* ------------------------------------------------------------------ layout
nodeWidth == 60
nodeHeight == 60
ranksep == 100
nodesep == 80

SetMax(S) == CHOOSE x \in S : \A y \in S : y <= x
SetMin(S) == CHOOSE x \in S : \A y \in S : x <= y

\* place of the node with this id in the array handed to the layout (0: none)
indexOfId(ns, id) ==
  IF \E i \in DOMAIN ns : ns[i].id = id
  THEN CHOOSE i \in DOMAIN ns : ns[i].id = id
  ELSE 0

\* dagreGraph.setEdge(edge.source, edge.target) for each edge: the graph is
\* simple, so the pairs form a set; k is the place of an edge in the array
edgePair(ns, es, k) ==
  <<indexOfId(ns, es[k].source), indexOfId(ns, es[k].target)>>
\* the layout sets self-loops aside before ranking
graphEdges(ns, es) ==
  {edgePair(ns, es, k) : k \in DOMAIN es} \
    {p \in (0..Len(ns)) \X (0..Len(ns)) : p[1] = p[2] \/ p[1] = 0 \/ p[2] = 0}
\* the place at which a pair was first set
firstSetAt(ns, es, p) ==
  SetMin({k \in DOMAIN es :
            edgePair(ns, es, k) = p \/ edgePair(ns, es, k) = <<p[2], p[1]>>})

\* is there a path of at most d edges from u to v
RECURSIVE reaches(_, _, _, _)
reaches(E, u, v, d) ==
  /\ d > 0
  /\ \/ <<u, v>> \in E
     \/ \E p \in E : p[1] = u /\ reaches(E, p[2], v, d - 1)

\* the graph is made acyclic: an edge that closes a cycle back to a node set
\* earlier is reversed
acyclic(E, n) ==
  {IF p[1] > p[2] /\ reaches(E, p[2], p[1], n) THEN <<p[2], p[1]>> ELSE p :
     p \in E}

\* rank of node v: the longest path that ends in v (d bounds the recursion)
RECURSIVE rankOf(_, _, _)
rankOf(E, v, d) ==
  LET preds == {p[1] : p \in {q \in E : q[2] = v}}
  IN IF d = 0 \/ preds = {} THEN 0
     ELSE 1 + SetMax({rankOf(E, u, d - 1) : u \in preds})

\* the elements of S as a sequence, smallest key first
RECURSIVE seqByKey(_, _)
seqByKey(S, key) ==
  IF S = {} THEN <<>>
  ELSE LET x == CHOOSE a \in S : \A b \in S : key[a] <= key[b]
       IN <<x>> \o seqByKey(S \ {x}, key)

\* initial order of the nodes inside the ranks: a depth-first walk that
\* starts from the nodes by rank (ties: the order in which they were set)
\* and follows the successors in the order in which their edges were set
RECURSIVE walk(_, _, _)
walk(succ, todo, visited) ==
  IF todo = <<>> THEN visited
  ELSE LET v == Head(todo)
       IN IF \E k \in DOMAIN visited : visited[k] = v
          THEN walk(succ, Tail(todo), visited)
          ELSE walk(succ, succ[v] \o Tail(todo), Append(visited, v))

\* dagre.layout(dagreGraph) with rankdir LR: the centre of every node;
\* ranks go along x, the order inside a rank goes along y
dagreLayout(ns, es) ==
  LET n == Len(ns)
      V == 1..n
      E == acyclic(graphEdges(ns, es), n)
      rank == [v \in V |-> rankOf(E, v, n)]
      byRank == seqByKey(V, [v \in V |-> rank[v] * (n + 1) + v])
      succ == [v \in V |->
                 LET S == {p[2] : p \in {q \in E : q[1] = v}}
                 IN seqByKey(S, [w \in S |-> firstSetAt(ns, es, <<v, w>>)])]
      visit == walk(succ, byRank, <<>>)
      at == [v \in V |-> CHOOSE k \in DOMAIN visit : visit[k] = v]
      order == [v \in V |->
                  Cardinality({w \in V : rank[w] = rank[v] /\ at[w] < at[v]})]
  IN [v \in V |->
        [x |-> nodeWidth \div 2 + rank[v] * (nodeWidth + ranksep),
         y |-> nodeHeight \div 2 + order[v] * (nodeHeight + nodesep)]]

\* faulty variant: the nodes keep the position they came with
getLayoutedElementsKeep(ns, es) == [nodes |-> ns, edges |-> es]

\* every node gets the top-left corner of its place in the layout; the other
\* fields, the order of the nodes and the edges are kept
getLayoutedElements(ns, es) ==
  LET nodeWithPosition == dagreLayout(ns, es)
  IN [nodes |-> [i \in DOMAIN ns |->
        [ns[i] EXCEPT !.position =
           [x |-> nodeWithPosition[i].x - nodeWidth \div 2,
            y |-> nodeWithPosition[i].y - nodeHeight \div 2]]],
      edges |-> es]

\* ------------------------------------------- draw-commands effect (AI batch)
\* faulty variant: the counter base is recomputed from the ids in the diagram alone
safeCounterFromNodes(counter, ns) == maxId(ns) + 1

\* newCounter = Math.max(stateCounter, maxId + 1)
safeCounter(counter, ns) == Max(counter, maxId(ns) + 1)

\* the effect starts on a non-empty drawCommands array: working copies are
\* taken from nodesRef/edgesRef (= nodes/edges of the committed render) and
\* the counter is moved past the largest ai-<n> suffix in the diagram
BeginDrawCommands ==
  /\ pc = "idle"
  /\ pc' = "loop"
  /\ idx' = 0
  /\ newNodes' = nodes
  /\ newEdges' = edges
  /\ newCounter' = safeCounter(stateCounter, nodes)
  /\ outcome' = "none"
  /\ UNCHANGED <<canvas, mode, now, idLog, timers, page>>

\* faulty variant: every field counts as present
truthyAlways(v) == TRUE
\* a field of a command in a condition: absent and '' count as false
truthy(v) == v # Undefined /\ v # ""

\* faulty variant: the id is built from the stateCounter of the closure
AiNodeStaleCounter(cmd, counter) ==
  [id |-> AiId(stateCounter),
   data |-> [label |-> cmd.label, isAccept |-> cmd.isAccept,
             isStart |-> cmd.isStart],
   position |-> [x |-> 0, y |-> 0],
   selected |-> FALSE]

AiNode(cmd, counter) ==
  [id |-> AiId(counter),
   data |-> [label |-> cmd.label, isAccept |-> cmd.isAccept,
             isStart |-> cmd.isStart],
   position |-> [x |-> 0, y |-> 0],
   selected |-> FALSE]

\* `e-${source}-${target}-${symbol}-${Date.now()}`
AiEdgeId(src, tgt, sym, t) ==
  [kind |-> "e", source |-> src, target |-> tgt,
   sourceHandle |-> NoHandle, targetHandle |-> NoHandle,
   symbol |-> sym, t |-> t]

\* faulty variant: the duplicate check compares the freshly built edge id
edgeExistsById(es, src, tgt, sym) ==
  \E i \in DOMAIN es : es[i].id = AiEdgeId(src, tgt, sym, now + 1)

edgeExists(es, src, tgt, sym) ==
  \E i \in DOMAIN es :
    es[i].source = src /\ es[i].target = tgt /\ es[i].label = sym

AiEdge(src, tgt, sym, t) ==
  LET isSelfLoop == src = tgt
  IN [id |-> AiEdgeId(src, tgt, sym, t),
      source |-> src, target |-> tgt, label |-> sym,
      type |-> IF isSelfLoop THEN "selfLoop" ELSE "default",
      sourceHandle |-> IF isSelfLoop THEN "right" ELSE NoHandle,
      targetHandle |-> IF isSelfLoop THEN "top" ELSE NoHandle]

\* The loop body works on w = [nodes, edges, counter, outcome]: the working
\* copies newNodes, newEdges, newCounter and the branch taken.

\* action.type === 'clearCanvas'
\* faulty variant: the clearCanvas command leaves the counter where it was
clearCanvasCommandKeepCounter(w) ==
  [nodes |-> <<>>, edges |-> <<>>, counter |-> w.counter,
   outcome |-> "cleared"]
clearCanvasCommand(w) ==
  [nodes |-> <<>>, edges |-> <<>>, counter |-> 0, outcome |-> "cleared"]

\* faulty variant: an existing label is overwritten with the flags of the command
onStateExistsUpsert(w, cmd) ==
  [w EXCEPT
     !.nodes = [i \in DOMAIN w.nodes |->
                  IF w.nodes[i].data.label = cmd.label
                  THEN [w.nodes[i] EXCEPT !.data.isStart = cmd.isStart,
                                          !.data.isAccept = cmd.isAccept]
                  ELSE w.nodes[i]],
     !.outcome = "stateExists"]

\* `if (!exists)` not taken: nothing is written
onStateExists(w, cmd) == [w EXCEPT !.outcome = "stateExists"]

\* action.type === 'addState' && action.label
addStateCommand(w, cmd) ==
  IF hasLabel(w.nodes, cmd.label)
  THEN onStateExists(w, cmd)
  ELSE [nodes |-> Append(w.nodes, AiNode(cmd, w.counter)),
        edges |-> w.edges,
        counter |-> w.counter + 1,
        outcome |-> "stateAdded"]

\* faulty variant: an unresolved label throws the working copies away
onUnresolvedRollback(w) ==
  [w EXCEPT !.nodes = nodes, !.edges = edges, !.outcome = "unresolved"]

\* the else branch of `if (sourceNode && targetNode)`: console.warn only
onUnresolved(w) == [w EXCEPT !.outcome = "unresolved"]

\* faulty variant: labels are looked up in the diagram as it was when the batch began
lookupNodesStale(w) == nodes

\* the array the labels of an addTransition are looked up in
lookupNodes(w) == w.nodes

\* action.type === 'addTransition' && from && to && symbol
addTransitionCommand(w, cmd, t) ==
  IF hasLabel(lookupNodes(w), cmd.from) /\ hasLabel(lookupNodes(w), cmd.to) THEN
    LET sourceNode == findByLabel(lookupNodes(w), cmd.from)
        targetNode == findByLabel(lookupNodes(w), cmd.to)
    IN IF edgeExists(w.edges, sourceNode.id, targetNode.id, cmd.symbol)
       THEN [w EXCEPT !.outcome = "edgeExists"]
       ELSE [w EXCEPT
               !.edges = Append(w.edges,
                           AiEdge(sourceNode.id, targetNode.id, cmd.symbol, t)),
               !.outcome = "edgeAdded"]
  ELSE onUnresolved(w)

\* one iteration of `for (const action of drawCommands)`; t is Date.now()
LoopBody(w, cmd, t) ==
  CASE cmd.type = "clearCanvas" -> clearCanvasCommand(w)
    [] cmd.type = "addState" /\ truthy(cmd.label) -> addStateCommand(w, cmd)
    [] /\ cmd.type = "addTransition"
       /\ truthy(cmd.from) /\ truthy(cmd.to) /\ truthy(cmd.symbol) ->
         addTransitionCommand(w, cmd, t)
    [] OTHER -> [w EXCEPT !.outcome = "ignored"]

\* the whole loop over an array of commands
RECURSIVE ApplyBatch(_, _, _)
ApplyBatch(w, cmds, t) ==
  IF cmds = <<>> THEN w
  ELSE ApplyBatch(LoopBody(w, Head(cmds), t), Tail(cmds), t)

Working == [nodes |-> newNodes, edges |-> newEdges, counter |-> newCounter,
            outcome |-> outcome]

StepDrawCommand(cmd) ==
  /\ pc = "loop"
  /\ idx < MaxBatchLen
  /\ idx' = idx + 1
  /\ LET r == LoopBody(Working, cmd, now + 1)
     IN /\ r.counter <= MaxCounter
        /\ Len(r.edges) <= MaxEdges
        /\ r.outcome = "edgeAdded" => now < MaxClock
        /\ newNodes' = r.nodes
        /\ newEdges' = r.edges
        /\ newCounter' = r.counter
        /\ outcome' = r.outcome
        /\ idLog' = CASE r.outcome = "cleared" -> <<>>
                      [] r.outcome = "stateAdded" ->
                           Append(idLog, r.nodes[Len(r.nodes)].id)
                      [] OTHER -> idLog
  /\ UNCHANGED <<canvas, mode, now, pc, timers, page>>

\* after the last command: layout, setNodes/setEdges/setStateCounter
EndDrawCommands ==
  /\ pc = "loop"
  /\ idx >= 1
  /\ LET layouted == getLayoutedElements(newNodes, newEdges)
     IN /\ nodes' = layouted.nodes
        /\ edges' = layouted.edges
  /\ stateCounter' = newCounter
  /\ now' = IF \E i \in DOMAIN newEdges :
                 newEdges[i].id.kind = "e" /\ newEdges[i].id.t = now + 1
            THEN now + 1 ELSE now
  /\ pc' = "idle"
  /\ idx' = 0
  /\ newNodes' = <<>>
  /\ newEdges' = <<>>
  /\ newCounter' = 0
  /\ outcome' = "none"
  /\ timers' = debounce(timers, nodes', edges')
  /\ UNCHANGED <<mode, idLog, page>>

\* ------------------------------------------------- snapshots and the page
\* the callback of a snapshot timer: onCanvasUpdate({ nodes, edges }) with
\* the arrays of the render that set the timer; handleCanvasUpdate stores it
snapshot(timer) == [nodes |-> timer.nodes, edges |-> timer.edges]

onSnapshotTimeout ==
  /\ pc = "idle"
  /\ timers # <<>>
  /\ Head(timers).behind => mirror.timers = <<>>
  /\ canvasContext' = <<snapshot(Head(timers))>>
  /\ delivered' = <<snapshot(Head(timers))>>
  /\ timers' = Tail(timers)
  /\ UNCHANGED <<canvas, mode, now, effect, idLog, mirror, chat, feed>>

\* the same callback in the second canvas instance
onMirrorTimeout ==
  /\ pc = "idle"
  /\ mirror.timers # <<>>
  /\ timers # <<>> => Head(timers).behind
  /\ canvasContext' = <<snapshot(Head(mirror.timers))>>
  /\ mirror' = [mirror EXCEPT !.timers = Tail(mirror.timers)]
  /\ UNCHANGED <<canvas, mode, now, effect, idLog, timers, delivered,
                 chat, feed>>

\* one whole run of the draw-commands effect in a canvas instance
\* inst = [nodes, edges, stateCounter, timers], followed by the snapshot
\* effect of the render it causes; the commit clears the old timers of both
\* canvases before it sets the new ones, the first canvas first
\* what the effect publishes: the laid-out arrays, the counter and the timer
\* of the render they cause
published(inst, layouted, counter) ==
  [nodes |-> layouted.nodes, edges |-> layouted.edges,
   stateCounter |-> counter,
   timers |-> Append(clearTimeout(inst.timers),
                     setTimeout(layouted.nodes, layouted.edges, FALSE)),
   reactFlowInstance |-> inst.reactFlowInstance]
\* the end of the effect, with r the working copies after the loop
layoutAndPublish(inst, r) ==
  published(inst, getLayoutedElements(r.nodes, r.edges), r.counter)
drawCommandsEffect(inst, cmds, t) ==
  layoutAndPublish(inst,
    ApplyBatch([nodes |-> inst.nodes, edges |-> inst.edges,
                counter |-> safeCounter(inst.stateCounter, inst.nodes),
                outcome |-> "none"],
               cmds, t))

\* did the loop create an edge at the millisecond t
tickedAt(es, t) == \E e \in Range(es) : e.id.kind = "e" /\ e.id.t = t

\* the ids handed out since the last clear, after the effect has turned
\* the nodes ns into after by running cmds
idLogAfter(log, cmds, ns, after) ==
  IF \E k \in DOMAIN cmds : cmds[k].type = "clearCanvas"
  THEN [i \in DOMAIN after |-> after[i].id]
  ELSE log \o [i \in 1..(Len(after) - Len(ns)) |-> after[Len(ns) + i].id]

\* setAiDrawCommands(commands): the same array goes to both canvas
\* instances, whose effects run one after the other in the same commit
\* this canvas as an instance
self ==
  [nodes |-> nodes, edges |-> edges, stateCounter |-> stateCounter,
   timers |-> timers, reactFlowInstance |-> reactFlowInstance]

\* the commit in which this canvas publishes a and the second one b, both
\* computed from cmds
commitBoth(cmds, a, b) ==
  LET ticked == tickedAt(a.edges, now + 1) \/ tickedAt(b.edges, now + 1)
  IN /\ a.stateCounter <= MaxCounter /\ b.stateCounter <= MaxCounter
     /\ Len(a.edges) <= MaxEdges /\ Len(b.edges) <= MaxEdges
     /\ ticked => now < MaxClock
     /\ nodes' = a.nodes
     /\ edges' = a.edges
     /\ stateCounter' = a.stateCounter
     /\ timers' = a.timers
     /\ mirror' = b
     /\ now' = IF ticked THEN now + 1 ELSE now
     /\ idLog' = idLogAfter(idLog, cmds, nodes, a.nodes)

setAiDrawCommands(cmds) ==
  /\ cmds # <<>>
  /\ commitBoth(cmds, drawCommandsEffect(self, cmds, now + 1),
                drawCommandsEffect(mirror, cmds, now + 1))
  /\ aiDrawCommands' = cmds
  /\ runs' = 1
  /\ UNCHANGED <<mode, effect, canvasContext, delivered, reactFlowInstance>>

\* handleAiDraw(commands), the onAiDraw of the chat
handleAiDraw(cmds) ==
  /\ pc = "idle"
  /\ setAiDrawCommands(cmds)
  /\ UNCHANGED chat

\* the dependency array [drawCommands, reactFlowInstance]: when the
\* instance changes the effect runs again, and passes its first line when
\* the array it was last given is not empty
reRun(cmds) == cmds # <<>>

\* the commit in which this canvas alone publishes a, computed from cmds
commitOwn(cmds, a) ==
  LET ticked == tickedAt(a.edges, now + 1)
  IN /\ a.stateCounter <= MaxCounter
     /\ Len(a.edges) <= MaxEdges
     /\ ticked => now < MaxClock
     /\ nodes' = a.nodes
     /\ edges' = a.edges
     /\ stateCounter' = a.stateCounter
     /\ timers' = debounce(timers, a.nodes, a.edges)
     /\ now' = IF ticked THEN now + 1 ELSE now
     /\ idLog' = idLogAfter(idLog, cmds, nodes, a.nodes)

\* the commit in which the second canvas alone publishes b
commitMirror(b) ==
  LET ticked == tickedAt(b.edges, now + 1)
  IN /\ b.stateCounter <= MaxCounter
     /\ Len(b.edges) <= MaxEdges
     /\ ticked => now < MaxClock
     /\ mirror' = [b EXCEPT !.reactFlowInstance = TRUE]
     /\ timers' = [k \in DOMAIN timers |->
                     [timers[k] EXCEPT !.behind = FALSE]]
     /\ now' = IF ticked THEN now + 1 ELSE now

\* onInit={setReactFlowInstance}: ReactFlow hands its instance to the canvas
onInit ==
  /\ pc = "idle"
  /\ ~reactFlowInstance
  /\ reactFlowInstance' = TRUE
  /\ IF reRun(aiDrawCommands)
     THEN /\ commitOwn(aiDrawCommands,
                       drawCommandsEffect(self, aiDrawCommands, now + 1))
          /\ runs' = runs + 1
     ELSE UNCHANGED <<canvas, timers, now, idLog, runs>>
  /\ UNCHANGED <<mode, effect, canvasContext, mirror, delivered,
                 aiDrawCommands, chat>>

\* the same in the second canvas instance; its new timer is set after
\* every timer that is pending in the first
onMirrorInit ==
  /\ pc = "idle"
  /\ ~mirror.reactFlowInstance
  /\ IF reRun(aiDrawCommands)
     THEN commitMirror(drawCommandsEffect(mirror, aiDrawCommands, now + 1))
     ELSE /\ mirror' = [mirror EXCEPT !.reactFlowInstance = TRUE]
          /\ UNCHANGED <<timers, now>>
  /\ UNCHANGED <<canvas, mode, effect, idLog, canvasContext, delivered,
                 chat, feed>>

\* ------------------------------------------------------------ user gestures
SetMode(m) ==
  /\ pc = "idle"
  /\ mode' = m
  /\ UNCHANGED <<canvas, now, effect, idLog, timers, page>>

\* faulty variant: a cancelled prompt is taken for an answer
cancelledNever(answer) == FALSE
\* prompt() returns null when the user cancels it
cancelled(answer) == answer = Null

\* faulty variant: a hand-made state is never the start state
manualNodeNeverStart(label, position, isFirst, t) ==
  [id |-> ManualId(t),
   data |-> [label |-> label, isAccept |-> FALSE, isStart |-> FALSE],
   position |-> position,
   selected |-> FALSE]
\* the node addState builds; t is Date.now()
manualNode(label, position, isFirst, t) ==
  [id |-> ManualId(t),
   data |-> [label |-> label, isAccept |-> FALSE, isStart |-> isFirst],
   position |-> position,
   selected |-> FALSE]

\* onPaneClick -> onCanvasClick -> addState; answer is what prompt() returns
addState(answer, position) ==
  /\ pc = "idle"
  /\ mode = "state"
  /\ reactFlowInstance
  /\ LET isFirst == Len(nodes) = 0
         label == trim(answer)
     IN IF cancelled(answer) \/ label = "" \/ hasLabel(nodes, label)
        THEN UNCHANGED <<nodes, stateCounter, now, idLog, timers>>
        ELSE /\ now < MaxClock
             /\ stateCounter < MaxCounter
             /\ now' = now + 1
             /\ nodes' = Append(nodes,
                  manualNode(label, position, isFirst, now + 1))
             /\ stateCounter' = stateCounter + 1
             /\ idLog' = Append(idLog, ManualId(now + 1))
             /\ timers' = debounce(timers, nodes', edges)
  /\ UNCHANGED <<edges, mode, effect, page>>

\* faulty variant: the new label is not looked for among the other states
labelTakenNever(ns, id, l) == FALSE
\* nodes.some(n => n.id !== node.id && n.data.label === newLabel.trim())
labelTaken(ns, id, l) ==
  \E j \in DOMAIN ns : ns[j].id # id /\ ns[j].data.label = l

\* does the rename reach setNodes
renameAccepted(i, answer) ==
  /\ ~cancelled(answer)
  /\ trim(answer) # ""
  /\ ~labelTaken(nodes, nodes[i].id, trim(answer))

\* the rename both onNodeClick (edit mode) and onNodeDoubleClick perform
EditLabel(i, answer) ==
  LET node == nodes[i]
      newLabel == trim(answer)
  IN IF ~cancelled(answer) /\ newLabel # ""
     THEN IF labelTaken(nodes, node.id, newLabel)
          THEN UNCHANGED nodes
          ELSE nodes' = [j \in DOMAIN nodes |->
                 IF nodes[j].id = node.id
                 THEN [nodes[j] EXCEPT !.data.label = newLabel]
                 ELSE nodes[j]]
     ELSE UNCHANGED nodes

\* start mode: the clicked state flips its flag, every other state loses it
\* faulty variant: the other states keep their flag
toggleStartOnlyClicked(ns, id) ==
  [j \in DOMAIN ns |->
     IF ns[j].id = id
     THEN [ns[j] EXCEPT !.data.isStart = ~ns[j].data.isStart]
     ELSE ns[j]]
\* faulty variant: the toggle lays the diagram out again
toggleStartRelayout(ns, id) ==
  getLayoutedElements(
    [j \in DOMAIN ns |->
       [ns[j] EXCEPT !.data.isStart =
          IF ns[j].id = id THEN ~ns[j].data.isStart ELSE FALSE]],
    <<>>).nodes
toggleStart(ns, id) ==
  [j \in DOMAIN ns |->
     [ns[j] EXCEPT !.data.isStart =
        IF ns[j].id = id THEN ~ns[j].data.isStart ELSE FALSE]]

\* faulty variant: the flag of every state is negated
toggleAcceptAll(ns, id) ==
  [j \in DOMAIN ns |->
     [ns[j] EXCEPT !.data.isAccept = ~ns[j].data.isAccept]]
\* accept mode: the clicked state flips its flag, the others are returned
\* as they are
toggleAccept(ns, id) ==
  [j \in DOMAIN ns |->
     IF ns[j].id = id
     THEN [ns[j] EXCEPT !.data.isAccept = ~ns[j].data.isAccept]
     ELSE ns[j]]

\* the filters of delete mode
keepNode(n, id) == n.id # id
\* faulty variant: only outgoing transitions are removed
keepEdgeSourceOnly(e, id) == e.source # id
\* faulty variant: only incoming transitions are removed
keepEdgeTargetOnly(e, id) == e.target # id
keepEdge(e, id) == e.source # id /\ e.target # id

onNodeClick(i, answer) ==
  /\ pc = "idle"
  /\ i \in DOMAIN nodes
  /\ LET node == nodes[i]
     IN CASE mode = "delete" ->
               /\ nodes' = SelectSeq(nodes, LAMBDA n : keepNode(n, node.id))
               /\ edges' = SelectSeq(edges, LAMBDA e : keepEdge(e, node.id))
          [] mode = "accept" ->
               /\ nodes' = toggleAccept(nodes, node.id)
               /\ UNCHANGED edges
          [] mode = "start" ->
               /\ nodes' = toggleStart(nodes, node.id)
               /\ UNCHANGED edges
          [] mode = "edit" ->
               /\ EditLabel(i, answer)
               /\ UNCHANGED edges
          [] OTHER -> UNCHANGED <<nodes, edges>>
  /\ timers' = IF \/ mode \in {"delete", "accept", "start"}
                  \/ (mode = "edit" /\ renameAccepted(i, answer))
               THEN debounce(timers, nodes', edges') ELSE timers
  /\ UNCHANGED <<stateCounter, mode, now, effect, idLog, page>>

onNodeDoubleClick(i, answer) ==
  /\ pc = "idle"
  /\ i \in DOMAIN nodes
  /\ EditLabel(i, answer)
  /\ timers' = IF renameAccepted(i, answer)
               THEN debounce(timers, nodes', edges) ELSE timers
  /\ UNCHANGED <<edges, stateCounter, mode, now, effect, idLog, page>>

\* reactflow's addEdge: an edge without id gets getEdgeId(); the edge is
\* dropped when connectionExists finds one with the same source, target and
\* handles (an absent handle only matches an absent handle)
sameHandle(a, b) == a = b
connectionExists(edge, es) ==
  \E i \in DOMAIN es :
    /\ es[i].source = edge.source
    /\ es[i].target = edge.target
    /\ sameHandle(es[i].sourceHandle, edge.sourceHandle)
    /\ sameHandle(es[i].targetHandle, edge.targetHandle)

addEdge(edge, es) ==
  IF connectionExists(edge, es) THEN es ELSE Append(es, edge)

\* a connection dragged from a source handle of nodes[i] to a target handle
\* of nodes[j]
onConnect(i, sh, j, th, answer) ==
  /\ pc = "idle"
  /\ i \in DOMAIN nodes /\ j \in DOMAIN nodes
  /\ IF ~cancelled(answer)
     THEN LET src == nodes[i].id
              tgt == nodes[j].id
              newEdge ==
                [id |-> [kind |-> "reactflow__edge", source |-> src,
                         target |-> tgt, sourceHandle |-> sh,
                         targetHandle |-> th, symbol |-> "", t |-> 0],
                 source |-> src, target |-> tgt, label |-> answer,
                 type |-> "default",
                 sourceHandle |-> sh, targetHandle |-> th]
          IN /\ edges' = addEdge(newEdge, edges)
             /\ Len(edges') <= MaxEdges
     ELSE UNCHANGED edges
  /\ timers' = IF edges' # edges
               THEN debounce(timers, nodes, edges') ELSE timers
  /\ UNCHANGED <<nodes, stateCounter, mode, now, effect, idLog, page>>

onEdgeClick(k, answer) ==
  /\ pc = "idle"
  /\ k \in DOMAIN edges
  /\ IF ~cancelled(answer)
     THEN edges' = [m \in DOMAIN edges |->
            IF edges[m].id = edges[k].id
            THEN [edges[m] EXCEPT !.label = answer]
            ELSE edges[m]]
     ELSE UNCHANGED edges
  /\ timers' = IF ~cancelled(answer)
               THEN debounce(timers, nodes, edges') ELSE timers
  /\ UNCHANGED <<nodes, stateCounter, mode, now, effect, idLog, page>>

\* nodes.find(n => n.selected)
hasSelected(ns) == \E i \in DOMAIN ns : ns[i].selected
firstSelected(ns) ==
  ns[CHOOSE i \in DOMAIN ns :
       ns[i].selected /\ \A j \in DOMAIN ns : ns[j].selected => i <= j]

addSelfLoop(answer) ==
  /\ pc = "idle"
  /\ IF ~hasSelected(nodes) \/ cancelled(answer)
     THEN UNCHANGED <<edges, now>>
     ELSE LET selected == firstSelected(nodes)
              newEdge ==
                [id |-> [kind |-> "e-loop", source |-> selected.id,
                         target |-> selected.id, sourceHandle |-> NoHandle,
                         targetHandle |-> NoHandle, symbol |-> "",
                         t |-> now + 1],
                 source |-> selected.id, target |-> selected.id,
                 label |-> answer, type |-> "selfLoop",
                 sourceHandle |-> "right", targetHandle |-> "top"]
          IN /\ now < MaxClock
             /\ now' = now + 1
             /\ edges' = addEdge(newEdge, edges)
             /\ Len(edges') <= MaxEdges
  /\ timers' = IF edges' # edges
               THEN debounce(timers, nodes, edges') ELSE timers
  /\ UNCHANGED <<nodes, stateCounter, mode, effect, idLog, page>>

\* the Clear Canvas button
clearCanvas ==
  /\ pc = "idle"
  /\ nodes' = <<>>
  /\ edges' = <<>>
  /\ stateCounter' = 0
  /\ idLog' = <<>>
  /\ timers' = debounce(timers, nodes', edges')
  /\ UNCHANGED <<mode, now, effect, page>>

\* onNodesChange with a position change: the user drags nodes[i] to p
onNodeDrag(i, p) ==
  /\ pc = "idle"
  /\ i \in DOMAIN nodes
  /\ nodes' = [nodes EXCEPT ![i].position = p]
  /\ timers' = debounce(timers, nodes', edges)
  /\ UNCHANGED <<edges, stateCounter, mode, now, effect, idLog, page>>

\* onNodesChange with a selection change (reactflow marks node i selected
\* or not when the user clicks nodes or the pane)
onNodesChange(i, sel) ==
  /\ pc = "idle"
  /\ i \in DOMAIN nodes
  /\ nodes' = [nodes EXCEPT ![i].selected = sel]
  /\ timers' = debounce(timers, nodes', edges)
  /\ UNCHANGED <<edges, stateCounter, mode, now, effect, idLog, page>>

\* -------------------------------------------------------------------- chat
DAILY_MESSAGE_LIMIT == 50

UserMessage(text) == [role |-> "user", content |-> text]
Reply == [role |-> "assistant", content |-> "reply"]
Apology == [role |-> "assistant", content |-> "apology"]
LimitNotice == [role |-> "assistant", content |-> "limit"]
ProblemIntro == [role |-> "assistant", content |-> "problem"]

\* incrementUsage: the stored count of today goes up by one
incrementUsage(count) == count + 1

\* faulty variant: the loading flag is never raised
setIsLoadingIgnored(v) == FALSE
setIsLoading(v) == v

\* the first line of handleSubmit: nothing to send, or a request is out
submitRefused(text, loading) == trim(text) = "" \/ loading

\* onChange of the chat box, which is disabled while a request is out and
\* while no problem is set
setInput(text) ==
  /\ pc = "idle"
  /\ ~isLoading
  /\ problemContext # Null
  /\ input' = text
  /\ UNCHANGED <<messages, isLoading, usage, pending, problemContext,
                 submitted>>
  /\ UNCHANGED <<canvas, mode, now, effect, idLog, timers, canvasContext,
                 mirror, delivered, feed>>

\* handleProblemSubmit -> handleProblemChange: a new problem statement
\* restarts the conversation
handleProblemSubmit(problem) ==
  /\ pc = "idle"
  /\ problemContext' = problem
  /\ messages' = IF problem # problemContext THEN <<ProblemIntro>>
                 ELSE messages
  /\ UNCHANGED <<input, isLoading, usage, pending, submitted>>
  /\ UNCHANGED <<canvas, mode, now, effect, idLog, timers, canvasContext,
                 mirror, delivered, feed>>

\* handleSubmit up to its first await: the request is sent
handleSubmit ==
  /\ pc = "idle"
  /\ IF submitRefused(input, isLoading)
     THEN /\ submitted' = "refused"
          /\ UNCHANGED <<messages, input, isLoading, usage, pending>>
     ELSE IF usage >= DAILY_MESSAGE_LIMIT
     THEN /\ Len(messages) + pending < MaxMessages
          /\ messages' = Append(messages, LimitNotice)
          /\ submitted' = "limited"
          /\ UNCHANGED <<input, isLoading, usage, pending>>
     ELSE /\ Len(messages) + pending + 1 < MaxMessages
          /\ input' = ""
          /\ messages' = Append(messages, UserMessage(trim(input)))
          /\ isLoading' = setIsLoading(TRUE)
          /\ usage' = incrementUsage(usage)
          /\ pending' = pending + 1
          /\ submitted' = "sent"
  /\ UNCHANGED problemContext
  /\ UNCHANGED <<canvas, mode, now, effect, idLog, timers, canvasContext,
                 mirror, delivered, feed>>

\* faulty variant: the catch block says nothing
onErrorSilent(msgs) == msgs
\* the catch block: the apology is appended
onError(msgs) == Append(msgs, Apology)

\* faulty variant: the flag is left as the send has set it
finallyMissing(loading) == loading
\* the finally block, which runs after the try and after the catch
finally(loading) == setIsLoading(FALSE)

\* handleSubmit after its awaits, response.ok and a body that parses:
\* cmds is data.drawCommands (<<>>: absent or empty)
handleSubmitResolved(cmds) ==
  /\ pc = "idle"
  /\ pending > 0
  /\ messages' = Append(messages, Reply)
  /\ IF cmds # <<>>
     THEN setAiDrawCommands(cmds)
     ELSE UNCHANGED <<canvas, mode, now, effect, idLog, timers,
                      canvasContext, mirror, delivered, feed>>
  /\ isLoading' = finally(isLoading)
  /\ pending' = pending - 1
  /\ UNCHANGED <<input, usage, problemContext, submitted>>

\* why a round trip fails: fetch rejects, the status is not a success, or
\* the body does not parse
Failures == {"rejected", "notOk", "badBody"}

\* handleSubmit after its awaits when the round trip failed: catch, finally
handleSubmitFailed(failure) ==
  /\ pc = "idle"
  /\ pending > 0
  /\ messages' = onError(messages)
  /\ isLoading' = finally(isLoading)
  /\ pending' = pending - 1
  /\ UNCHANGED <<input, usage, problemContext, submitted>>
  /\ UNCHANGED <<canvas, mode, now, effect, idLog, timers, canvasContext,
                 mirror, delivered, feed>>

\* the arrays of commands a chat response hands to the page
Batches ==
  UNION {[1..n -> Commands] : n \in 1..MaxBatchLen}

Next ==
  \/ BeginDrawCommands
  \/ \E cmd \in Commands : StepDrawCommand(cmd)
  \/ EndDrawCommands
  \/ \E m \in Modes : SetMode(m)
  \/ \E answer \in LabelAnswers, position \in ClickPositions :
       addState(answer, position)
  \/ \E i \in 1..Cardinality(Labels), answer \in LabelAnswers :
       onNodeClick(i, answer)
  \/ \E i \in 1..Cardinality(Labels), answer \in LabelAnswers :
       onNodeDoubleClick(i, answer)
  \/ \E i, j \in 1..Cardinality(Labels), sh \in SourceHandles,
        th \in TargetHandles, answer \in SymbolAnswers :
       onConnect(i, sh, j, th, answer)
  \/ \E k \in 1..MaxEdges, answer \in SymbolAnswers : onEdgeClick(k, answer)
  \/ \E answer \in SymbolAnswers : addSelfLoop(answer)
  \/ clearCanvas
  \/ \E i \in 1..Cardinality(Labels), sel \in BOOLEAN : onNodesChange(i, sel)
  \/ \E i \in 1..Cardinality(Labels), p \in DragPositions : onNodeDrag(i, p)
  \/ onSnapshotTimeout
  \/ onMirrorTimeout
  \/ \E cmds \in Batches : handleAiDraw(cmds)
  \/ onInit
  \/ onMirrorInit
  \/ \E text \in Inputs : setInput(text)
  \/ \E problem \in Problems : handleProblemSubmit(problem)
  \/ handleSubmit
  \/ handleSubmitResolved(<<>>)
  \/ \E cmds \in Batches : handleSubmitResolved(cmds)
  \/ \E failure \in Failures : handleSubmitFailed(failure)

Spec == Mounted /\ [][Next]_vars

(***************************************************************************)
(* The full relation Next is checked through three restrictions of its      *)
(* inputs.  Each keeps the actions of Next unchanged and narrows only the  *)
(* sets the commands, modes and prompt answers are drawn from, to the part *)
(* of the diagram a group of properties reads.                             *)
(***************************************************************************)

\* states, labels, flags and ids: no transitions
NodeCommands == AddStateCmds \cup ClearCmds
NodeModes == {"state", "edit", "start", "accept", "delete"}

NextNodes ==
  \/ BeginDrawCommands
  \/ \E cmd \in NodeCommands : StepDrawCommand(cmd)
  \/ EndDrawCommands
  \/ \E m \in NodeModes : SetMode(m)
  \/ \E answer \in LabelAnswers : addState(answer, Origin)
  \/ \E i \in 1..Cardinality(Labels), answer \in LabelAnswers :
       onNodeClick(i, answer)
  \/ \E i \in 1..Cardinality(Labels), answer \in LabelAnswers :
       onNodeDoubleClick(i, answer)
  \/ clearCanvas

SpecNodes == Init /\ [][NextNodes]_vars

\* transitions made by the user and by the tutor: states carry no flags, the
\* tutor adds states and x-transitions, the user connects, relabels, adds
\* self-loops, deletes and clears
EdgeCommands ==
  [type : {"addState"}, label : Labels, isStart : {FALSE}, isAccept : {FALSE}]
    \cup [type : {"addTransition"}, from : Labels, to : Labels, symbol : {"x"}]
EdgeModes == {"transition", "delete"}
EdgeAnswers == {Null, "x", "y"}

NextEdges ==
  \/ BeginDrawCommands
  \/ \E cmd \in EdgeCommands : StepDrawCommand(cmd)
  \/ EndDrawCommands
  \/ \E m \in EdgeModes : SetMode(m)
  \/ \E i \in 1..Cardinality(Labels) : onNodeClick(i, Null)
  \/ \E i, j \in 1..Cardinality(Labels), answer \in EdgeAnswers :
       onConnect(i, "right", j, "top", answer)
  \/ \E k \in 1..MaxEdges, answer \in EdgeAnswers : onEdgeClick(k, answer)
  \/ \E answer \in EdgeAnswers : addSelfLoop(answer)
  \/ clearCanvas
  \/ \E i \in 1..Cardinality(Labels), sel \in BOOLEAN : onNodesChange(i, sel)

SpecEdges == Init /\ [][NextEdges]_vars

\* command batches of states, transitions and clears, on diagrams that also
\* hold states the user added or deleted by hand
BatchCommands ==
  [type : {"addState"}, label : Labels, isStart : {FALSE}, isAccept : {FALSE}]
    \cup AddTransitionCmds \cup ClearCmds
BatchModes == {"state", "delete"}
BatchAnswers == {Null, "A", "B"}

NextBatch ==
  \/ BeginDrawCommands
  \/ \E cmd \in BatchCommands : StepDrawCommand(cmd)
  \/ EndDrawCommands
  \/ \E m \in BatchModes : SetMode(m)
  \/ \E answer \in BatchAnswers : addState(answer, Origin)
  \/ \E i \in 1..Cardinality(Labels) : onNodeClick(i, Null)
  \/ clearCanvas

SpecBatch == Init /\ [][NextBatch]_vars

\* Positions: AI batches that add state A and the transition from A to B,
\* next to every gesture, with clicks and drags that land off the grid of
\* the layout.  The user works on the first state of the diagram, and the
\* diagram is never cleared, so MaxCounter bounds the states ever created.
LayoutCommands ==
  {[type |-> "addState", label |-> "A", isStart |-> FALSE, isAccept |-> FALSE],
   [type |-> "addTransition", from |-> "A", to |-> "B", symbol |-> "x"]}
LayoutModes == {"state", "edit", "start", "accept", "delete"}

NextLayout ==
  \/ BeginDrawCommands
  \/ \E cmd \in LayoutCommands : StepDrawCommand(cmd)
  \/ EndDrawCommands
  \/ \E m \in LayoutModes : SetMode(m)
  \/ addState("B", OffGrid)
  \/ onNodeClick(1, "B")
  \/ onNodeDoubleClick(1, "A")
  \/ \E j \in 1..Cardinality(Labels) : onConnect(1, "right", j, "top", "x")
  \/ onEdgeClick(1, "y")
  \/ addSelfLoop("x")
  \/ onNodesChange(1, TRUE)
  \/ \E p \in DragPositions : onNodeDrag(1, p)

SpecLayout == Init /\ [][NextLayout]_vars

\* Snapshots of one canvas: AI batches that add state A or clear, manual
\* adds of B, deletes and clears, and the snapshot timer.
SnapshotCommands ==
  {[type |-> "addState", label |-> "A", isStart |-> FALSE, isAccept |-> FALSE],
   [type |-> "addState", label |-> "B", isStart |-> TRUE, isAccept |-> FALSE],
   [type |-> "clearCanvas"]}
SnapshotModes == {"state", "delete"}

NextSnapshot ==
  \/ BeginDrawCommands
  \/ \E cmd \in SnapshotCommands : StepDrawCommand(cmd)
  \/ EndDrawCommands
  \/ \E m \in SnapshotModes : SetMode(m)
  \/ \E answer \in {Null, "B"} : addState(answer, OffGrid)
  \/ \E i \in 1..Cardinality(Labels) : onNodeClick(i, Null)
  \/ clearCanvas
  \/ onSnapshotTimeout
  \/ onMirrorTimeout

SpecSnapshot == Init /\ [][NextSnapshot]_vars

\* Delivery: the page hands both canvases arrays of commands that add
\* state A or clear, the user adds B or clears.  A timer that is due fires.
LiveBatches ==
  {<<[type |-> "addState", label |-> "A", isStart |-> FALSE,
      isAccept |-> FALSE]>>,
   <<[type |-> "clearCanvas"],
     [type |-> "addState", label |-> "A", isStart |-> TRUE,
      isAccept |-> FALSE]>>}

NextSnapshotLive ==
  \/ \E cmds \in LiveBatches : handleAiDraw(cmds)
  \/ addState("B", Origin)
  \/ clearCanvas
  \/ onSnapshotTimeout
  \/ onMirrorTimeout

SpecSnapshotLive ==
  /\ Init
  /\ [][NextSnapshotLive]_vars
  /\ WF_vars(onSnapshotTimeout)
  /\ WF_vars(onMirrorTimeout)

\* The page: both canvas instances get every array of commands, the user
\* works on the first one, and both report to handleCanvasUpdate.
PageBatches ==
  {<<[type |-> "addState", label |-> "A", isStart |-> TRUE,
      isAccept |-> FALSE]>>,
   <<[type |-> "addState", label |-> "A", isStart |-> FALSE,
      isAccept |-> FALSE],
     [type |-> "addState", label |-> "B", isStart |-> FALSE,
      isAccept |-> TRUE],
     [type |-> "addTransition", from |-> "A", to |-> "B", symbol |-> "x"]>>,
   <<[type |-> "clearCanvas"]>>}
PageModes == {"state", "delete"}

NextPage ==
  \/ \E cmds \in PageBatches : handleAiDraw(cmds)
  \/ \E m \in PageModes : SetMode(m)
  \/ \E answer \in {Null, "A", "B"} : addState(answer, OffGrid)
  \/ \E i \in 1..Cardinality(Labels) : onNodeClick(i, Null)
  \/ onSnapshotTimeout
  \/ onMirrorTimeout

SpecPage == Init /\ [][NextPage]_vars

\* The feed of commands: from the moment the canvases are mounted the user
\* sets a problem, asks, and the replies carry arrays of commands; ReactFlow
\* initialises each canvas at some moment; the user adds and deletes states.
FeedBatches ==
  {<<[type |-> "addTransition", from |-> "A", to |-> "B", symbol |-> "x"],
     [type |-> "addState", label |-> "A", isStart |-> TRUE,
      isAccept |-> FALSE],
     [type |-> "addState", label |-> "B", isStart |-> FALSE,
      isAccept |-> TRUE]>>,
   <<[type |-> "addState", label |-> "A", isStart |-> TRUE,
      isAccept |-> FALSE]>>}
FeedModes == {"state", "delete"}

NextFeed ==
  \/ handleProblemSubmit("p1")
  \/ setInput("q")
  \/ handleSubmit
  \/ \E cmds \in {<<>>} \cup FeedBatches : handleSubmitResolved(cmds)
  \/ handleSubmitFailed("notOk")
  \/ onInit
  \/ onMirrorInit
  \/ \E m \in FeedModes : SetMode(m)
  \/ addState("B", OffGrid)
  \/ \E i \in 1..Cardinality(Labels) : onNodeClick(i, Null)
  \/ onSnapshotTimeout
  \/ onMirrorTimeout

SpecFeed == Mounted /\ [][NextFeed]_vars

\* Gestures and their prompts: every answer a prompt can return, cancelling
\* included, on diagrams of hand-made states and of the two states a reply
\* draws; two handles to end a connection at, and any selection of states.
GestureBatches ==
  {<<[type |-> "addState", label |-> "A", isStart |-> FALSE,
      isAccept |-> FALSE],
     [type |-> "addState", label |-> "B", isStart |-> FALSE,
      isAccept |-> TRUE]>>}
GestureModes == {"state", "edit"}
GestureLabels == {Null, "", " A", "B"}
GestureSymbols == {Null, "", "x"}

NextGestures ==
  \/ \E cmds \in GestureBatches : handleAiDraw(cmds)
  \/ \E m \in GestureModes : SetMode(m)
  \/ \E answer \in GestureLabels : addState(answer, OffGrid)
  \/ \E i \in 1..Cardinality(Labels), answer \in GestureLabels :
       onNodeClick(i, answer)
  \/ \E i \in 1..Cardinality(Labels), answer \in GestureLabels :
       onNodeDoubleClick(i, answer)
  \/ \E i, j \in 1..Cardinality(Labels), answer \in GestureSymbols :
       onConnect(i, "right", j, "top", answer)
  \/ \E k \in 1..MaxEdges, answer \in GestureSymbols : onEdgeClick(k, answer)
  \/ \E answer \in GestureSymbols : addSelfLoop(answer)
  \/ \E i \in 1..Cardinality(Labels), sel \in BOOLEAN : onNodesChange(i, sel)
  \/ clearCanvas

SpecGestures == Init /\ [][NextGestures]_vars

\* Malformed replies: batches that mix commands the loop knows with commands
\* of an unknown type and commands that lack a required field.
SkipCommands ==
  {[type |-> "addState", label |-> "A", isStart |-> TRUE, isAccept |-> FALSE],
   [type |-> "addState", label |-> "B", isStart |-> FALSE, isAccept |-> TRUE],
   [type |-> "addTransition", from |-> "A", to |-> "B", symbol |-> "x"],
   [type |-> "clearCanvas"]}
MalformedCommands ==
  {[type |-> "removeState", label |-> "A"],
   [type |-> Undefined],
   [type |-> "addState", label |-> Undefined, isStart |-> TRUE,
    isAccept |-> FALSE],
   [type |-> "addState", label |-> "", isStart |-> FALSE, isAccept |-> FALSE],
   [type |-> "addTransition", from |-> Undefined, to |-> "B", symbol |-> "x"],
   [type |-> "addTransition", from |-> "A", to |-> Undefined, symbol |-> "x"],
   [type |-> "addTransition", from |-> "A", to |-> "B", symbol |-> Undefined]}

NextSkip ==
  \/ BeginDrawCommands
  \/ \E cmd \in SkipCommands \cup MalformedCommands : StepDrawCommand(cmd)
  \/ EndDrawCommands

SpecSkip == Init /\ [][NextSkip]_vars

\* Replays: the page hands arrays of commands to canvases that ReactFlow has
\* not initialised yet; when onInit comes, the effect runs again on the
\* array it was last given, on the diagram its first run has left.
ReplayBatches ==
  {<<[type |-> "addTransition", from |-> "A", to |-> "B", symbol |-> "x"],
     [type |-> "addState", label |-> "A", isStart |-> TRUE,
      isAccept |-> FALSE],
     [type |-> "addState", label |-> "B", isStart |-> FALSE,
      isAccept |-> TRUE]>>,
   <<[type |-> "addState", label |-> "A", isStart |-> FALSE,
      isAccept |-> FALSE],
     [type |-> "addState", label |-> "B", isStart |-> FALSE,
      isAccept |-> TRUE],
     [type |-> "addTransition", from |-> "A", to |-> "B", symbol |-> "x"]>>,
   <<[type |-> "clearCanvas"],
     [type |-> "addState", label |-> "A", isStart |-> TRUE,
      isAccept |-> TRUE],
     [type |-> "addTransition", from |-> "A", to |-> "A", symbol |-> "y"]>>,
   <<[type |-> "addState", label |-> "B", isStart |-> TRUE,
      isAccept |-> FALSE]>>,
   <<[type |-> "addTransition", from |-> "B", to |-> "A", symbol |-> "y"]>>,
   <<[type |-> "addTransition", from |-> "A", to |-> "A", symbol |-> "x"],
     [type |-> "clearCanvas"],
     [type |-> "addState", label |-> "B", isStart |-> FALSE,
      isAccept |-> FALSE]>>}

NextReplay ==
  \/ \E cmds \in ReplayBatches : handleAiDraw(cmds)
  \/ onInit
  \/ onMirrorInit

SpecReplay == Mounted /\ [][NextReplay]_vars

\* Renaming: a reply draws two states and a transition between them, the
\* user adds states by hand, selects and drags states, and renames them by
\* a click in edit mode or by a double-click, to a label in use or to a free
\* one.
RenameBatches ==
  {<<[type |-> "addState", label |-> "A", isStart |-> FALSE,
      isAccept |-> FALSE],
     [type |-> "addState", label |-> "B", isStart |-> FALSE,
      isAccept |-> TRUE],
     [type |-> "addTransition", from |-> "A", to |-> "B", symbol |-> "x"]>>}
RenameModes == {"state", "edit"}
RenameAnswers == {Null, "", " A", "B", "C"}

NextRename ==
  \/ \E cmds \in RenameBatches : handleAiDraw(cmds)
  \/ \E m \in RenameModes : SetMode(m)
  \/ \E answer \in RenameAnswers : addState(answer, OffGrid)
  \/ \E i \in 1..Cardinality(Labels), answer \in RenameAnswers :
       onNodeClick(i, answer)
  \/ \E i \in 1..Cardinality(Labels), answer \in RenameAnswers :
       onNodeDoubleClick(i, answer)
  \/ \E i \in 1..Cardinality(Labels), sel \in BOOLEAN : onNodesChange(i, sel)
  \/ \E i \in 1..Cardinality(Labels) : onNodeDrag(i, OffGrid)
  \/ clearCanvas

SpecRename == Init /\ [][NextRename]_vars

\* The chat: on a day on which all but two of the messages have been sent,
\* the user sets problems, types, submits, and the round trips resolve with
\* or without commands, or fail.
NearLimit ==
  /\ InitCanvas(TRUE)
  /\ InitChat
  /\ usage = DAILY_MESSAGE_LIMIT - 2

ChatBatches ==
  {<<[type |-> "addState", label |-> "A", isStart |-> TRUE,
      isAccept |-> FALSE]>>,
   <<[type |-> "clearCanvas"]>>}

NextChat ==
  \/ \E problem \in Problems : handleProblemSubmit(problem)
  \/ \E text \in Inputs : setInput(text)
  \/ handleSubmit
  \/ \E cmds \in {<<>>} \cup ChatBatches : handleSubmitResolved(cmds)
  \/ \E failure \in Failures : handleSubmitFailed(failure)

SpecChat == NearLimit /\ [][NextChat]_vars

\* The chat with round trips that end: a request that is out is answered
\* or fails at some time.
roundTripEnds ==
  \/ \E cmds \in {<<>>} \cup ChatBatches : handleSubmitResolved(cmds)
  \/ \E failure \in Failures : handleSubmitFailed(failure)

SpecChatLive == SpecChat /\ WF_vars(roundTripEnds)

\* ------------------------------------------------------------ properties
IdsOf(ns) == {ns[i].id : i \in DOMAIN ns}
LabelsOf(ns) == {ns[i].data.label : i \in DOMAIN ns}
Injective(seq) == \A i, j \in DOMAIN seq : i # j => seq[i] # seq[j]
LabelsDistinct(ns) ==
  \A i, j \in DOMAIN ns : i # j => ns[i].data.label # ns[j].data.label
IdsDistinct(ns) == \A i, j \in DOMAIN ns : i # j => ns[i].id # ns[j].id
IdOfLabel(ns, l) == (CHOOSE n \in Range(ns) : n.data.label = l).id
HasTriple(es, src, tgt, sym) ==
  \E e \in Range(es) : e.source = src /\ e.target = tgt /\ e.label = sym
SameDiagram(a, b) ==
  a.nodes = b.nodes /\ a.edges = b.edges /\ a.counter = b.counter
AddStateOf(l, s, a) ==
  [type |-> "addState", label |-> l, isStart |-> s, isAccept |-> a]
AddTransitionOf(f, t, x) ==
  [type |-> "addTransition", from |-> f, to |-> t, symbol |-> x]
ClearCmd == [type |-> "clearCanvas"]

\* C1: no two states of the diagram have the same label, in the published
\* diagram and in the working copy of a running batch, after any sequence of
\* AI batches, manual adds, renames, deletes, start toggles and clears.
UniqueLabels == LabelsDistinct(nodes) /\ LabelsDistinct(newNodes)

\* C1 witness: the diagram holds a state the tutor added next to one the
\* user added by hand, with a rename mode active.
UniqueLabelsWitness ==
  /\ pc = "idle"
  /\ mode = "edit"
  /\ Len(nodes) = 2
  /\ nodes[1].id.kind # nodes[2].id.kind

\* C2 (the claim as stated): at most one state has isStart = true.
AtMostOneStart ==
  Cardinality({i \in DOMAIN nodes : nodes[i].data.isStart}) <= 1

\* C3: every transition's source and target are ids of states of the same
\* diagram, in the published diagram and in the working copy of a batch.
NoDanglingEdges ==
  /\ \A e \in Range(edges) :
       e.source \in IdsOf(nodes) /\ e.target \in IdsOf(nodes)
  /\ \A e \in Range(newEdges) :
       e.source \in IdsOf(newNodes) /\ e.target \in IdsOf(newNodes)

\* C3 witness: a state was deleted since the last clear (more ids were
\* handed out than states remain) and a transition is still in the diagram.
NoDanglingEdgesWitness ==
  /\ pc = "idle"
  /\ mode = "delete"
  /\ Len(idLog) > Len(nodes)
  /\ Len(edges) >= 1

\* C4 (the claim as stated): no two transitions share source, target and
\* symbol.
UniqueTriples ==
  \A i, j \in DOMAIN edges :
    i # j => ~(/\ edges[i].source = edges[j].source
               /\ edges[i].target = edges[j].target
               /\ edges[i].label = edges[j].label)

\* C5: state ids are pairwise distinct, in the published diagram and in the
\* working copy of a batch, also after a clearCanvas inside the batch.
UniqueIds == IdsDistinct(nodes) /\ IdsDistinct(newNodes)

\* C5 witness: a batch cleared a non-empty diagram and then added two
\* states, the first of which restarts at ai-0.
UniqueIdsWitness ==
  /\ pc = "loop"
  /\ Len(nodes) >= 1
  /\ Len(newNodes) = 2
  /\ newNodes[1].id = AiId(0)

\* C6: between two clears no id is handed out twice: the ids assigned since
\* the last clear (deleted states included) are pairwise distinct.
NoIdReuse == Injective(idLog)

\* C6 witness: three ids were handed out since the last clear, one of their
\* states was deleted, and the newest state was added by the tutor.
NoIdReuseWitness ==
  /\ pc = "idle"
  /\ Len(idLog) = 3
  /\ Len(nodes) = 2
  /\ nodes[2].id = idLog[3]
  /\ nodes[2].id.kind = "ai"

\* the addState commands that create the labels of from/to missing in ns
MissingAdds(ns, f, t) ==
  LET fs == IF f \in LabelsOf(ns) THEN <<>> ELSE <<AddStateOf(f, FALSE, FALSE)>>
      ts == IF t \in LabelsOf(ns) \/ t = f THEN <<>>
            ELSE <<AddStateOf(t, FALSE, FALSE)>>
  IN fs \o ts

\* C7: commands are applied in order against the batch-mutated diagram: from
\* any point of a batch, an addTransition placed after the addState commands
\* that create its missing labels yields the transition between the new
\* states, and the same addTransition placed before them creates nothing.
OrderRespected ==
  pc = "loop" =>
    \A f \in Labels, t \in Labels, x \in Symbols :
      LET adds == MissingAdds(newNodes, f, t)
          tr == AddTransitionOf(f, t, x)
          after == ApplyBatch(Working, adds \o <<tr>>, now + 1)
          before == ApplyBatch(Working, <<tr>> \o adds, now + 1)
      IN adds # <<>> =>
           /\ HasTriple(after.edges, IdOfLabel(after.nodes, f),
                        IdOfLabel(after.nodes, t), x)
           /\ before.edges = newEdges
           /\ before.nodes = after.nodes

\* C7 witness: a step of a running batch created a transition whose source
\* and target did not exist when the batch started.
OrderRespectedWitness ==
  /\ pc = "loop"
  /\ outcome = "edgeAdded"
  /\ newEdges[Len(newEdges)].source \notin IdsOf(nodes)
  /\ newEdges[Len(newEdges)].target \notin IdsOf(nodes)
  /\ newEdges[Len(newEdges)].source # newEdges[Len(newEdges)].target

\* C8: an addTransition with an unresolved label is skipped: from any point
\* of a batch, the rest of the batch gives the same nodes, edges and counter
\* with the command as without it; one unresolved addTransition on an empty
\* diagram leaves 0 states and 0 transitions.
UnresolvedSkipped ==
  pc = "loop" =>
    /\ \A f \in Labels, t \in Labels, x \in Symbols :
         (f \notin LabelsOf(newNodes) \/ t \notin LabelsOf(newNodes)) =>
           \A rest \in {<<>>} \cup {<<c>> : c \in BatchCommands} :
             SameDiagram(
               ApplyBatch(Working, <<AddTransitionOf(f, t, x)>> \o rest, now + 1),
               ApplyBatch(Working, rest, now + 1))
    /\ (nodes = <<>> /\ edges = <<>> /\ idx = 1 /\ outcome = "unresolved") =>
         (newNodes = <<>> /\ newEdges = <<>>)

\* C8 witness: the second or a later command of a batch was an unresolved
\* addTransition, after an earlier command had changed the working copy.
UnresolvedSkippedWitness ==
  /\ pc = "loop"
  /\ outcome = "unresolved"
  /\ idx >= 2
  /\ newNodes # nodes

\* C9: an addState for a label the batch-mutated diagram already holds
\* changes nothing, whatever flags it carries; clearCanvas, addState l
\* isStart:true, addState l isStart:false leaves one state l with isStart.
DuplicateStateRejected ==
  pc = "loop" =>
    /\ \A cmd \in AddStateCmds :
         cmd.label \in LabelsOf(newNodes) =>
           SameDiagram(LoopBody(Working, cmd, now + 1), Working)
    /\ \A l \in Labels :
         LET r == ApplyBatch(Working,
                    <<ClearCmd, AddStateOf(l, TRUE, FALSE),
                      AddStateOf(l, FALSE, FALSE)>>, now + 1)
         IN /\ Len(r.nodes) = 1
            /\ r.nodes[1].data = [label |-> l, isAccept |-> FALSE,
                                  isStart |-> TRUE]

\* C9 witness: the third command of a batch was an addState for the label of
\* the start state the batch had created after its clearCanvas.
DuplicateStateRejectedWitness ==
  /\ pc = "loop"
  /\ idx = 3
  /\ outcome = "stateExists"
  /\ Len(nodes) >= 1
  /\ Len(newNodes) = 1
  /\ newNodes[1].id = AiId(0)
  /\ newNodes[1].data.isStart

\* C10: an AI addTransition whose source, target and symbol already exist
\* changes nothing; adding A, B and A-x->B twice to an empty working copy
\* gives 2 states and 1 transition.
DuplicateTransitionNoOp ==
  pc = "loop" =>
    /\ \A f \in LabelsOf(newNodes), t \in LabelsOf(newNodes), x \in Symbols :
         HasTriple(newEdges, IdOfLabel(newNodes, f), IdOfLabel(newNodes, t), x)
           => SameDiagram(
                LoopBody(Working, AddTransitionOf(f, t, x), now + 1), Working)
    /\ newNodes = <<>> =>
         LET r == ApplyBatch([Working EXCEPT !.edges = <<>>],
                    <<AddStateOf("A", TRUE, FALSE), AddStateOf("B", FALSE, FALSE),
                      AddTransitionOf("A", "B", "x"),
                      AddTransitionOf("A", "B", "x")>>, now + 1)
         IN Len(r.nodes) = 2 /\ Len(r.edges) = 1

\* C10 witness: a batch repeated an addTransition for a transition that an
\* earlier batch had put into the diagram.
DuplicateTransitionNoOpWitness ==
  /\ pc = "loop"
  /\ outcome = "edgeExists"
  /\ Len(newNodes) = 2
  /\ Len(newEdges) = 1
  /\ newEdges = edges

StartCount(ns) == Cardinality({i \in DOMAIN ns : ns[i].data.isStart})

\* C11: a click in start mode on a state B that is not the start state, in a
\* diagram with at most one start state, leaves B as the one and only start
\* state and changes no other field of any state, no transition and no
\* counter.
StartToggleExclusive ==
  [][\A i \in DOMAIN nodes :
       (/\ mode = "start"
        /\ StartCount(nodes) <= 1
        /\ ~nodes[i].data.isStart
        /\ onNodeClick(i, Null))
       => /\ DOMAIN nodes' = DOMAIN nodes
          /\ \A j \in DOMAIN nodes :
               nodes'[j] = [nodes[j] EXCEPT !.data.isStart = (j = i)]
          /\ StartCount(nodes') = 1
          /\ edges' = edges /\ stateCounter' = stateCounter]_vars

\* C11 witness: the first state made by hand since the last clear (start by
\* default) has lost the flag to the second hand-made state (not start when
\* made), which only a click in start mode brings about.
StartToggleExclusiveWitness ==
  /\ pc = "idle"
  /\ mode = "start"
  /\ Len(nodes) = 2
  /\ Len(idLog) = 2
  /\ nodes[1].id = idLog[1] /\ nodes[1].id.kind = "state"
  /\ nodes[2].id.kind = "state"
  /\ ~nodes[1].data.isStart
  /\ nodes[2].data.isStart

\* C12: a click in delete mode on a state removes that state and exactly the
\* transitions that have it as source or target; every other state and
\* every other transition stays as it was, in the same order.
DeleteFrame ==
  [][\A i \in DOMAIN nodes :
       (mode = "delete" /\ onNodeClick(i, Null))
       => LET id == nodes[i].id
              incident == {k \in DOMAIN edges :
                             edges[k].source = id \/ edges[k].target = id}
          IN /\ Len(nodes') = Len(nodes) - 1
             /\ \A j \in DOMAIN nodes' :
                  nodes'[j] = IF j < i THEN nodes[j] ELSE nodes[j + 1]
             /\ Len(edges') = Len(edges) - Cardinality(incident)
             /\ Range(edges') = {edges[k] : k \in DOMAIN edges \ incident}
             /\ \A a, b \in DOMAIN edges' :
                  a < b => \E ka, kb \in DOMAIN edges :
                    ka < kb /\ edges[ka] = edges'[a] /\ edges[kb] = edges'[b]
             /\ stateCounter' = stateCounter]_vars

\* C12 witness: one of two states has been deleted since the last clear and
\* the state that remains keeps its self-loop, the only transition left.
DeleteFrameWitness ==
  /\ pc = "idle"
  /\ mode = "delete"
  /\ Len(idLog) = 2
  /\ Len(nodes) = 1
  /\ Len(edges) = 1
  /\ edges[1].source = nodes[1].id
  /\ edges[1].target = nodes[1].id

\* C13 (the claim as stated): a transition has the edge type selfLoop if and
\* only if its source is its target, in the published diagram and in the
\* working copy of a batch.
SelfLoopIffSameEnds ==
  \A e \in Range(edges) \cup Range(newEdges) :
    (e.type = "selfLoop") <=> (e.source = e.target)

\* C14: when a batch whose last command is clearCanvas is published, and
\* when the Clear button is pressed, the diagram has no states and no
\* transitions and the id counter is 0, whatever the diagram was before.
ClearResets ==
  [][((EndDrawCommands /\ outcome = "cleared") \/ clearCanvas)
       => (nodes' = <<>> /\ edges' = <<>> /\ stateCounter' = 0)]_vars

\* C14 witness: a batch running on a diagram with states and a transition
\* has just processed a clearCanvas command.
ClearResetsWitness ==
  /\ pc = "loop"
  /\ outcome = "cleared"
  /\ Len(nodes) >= 2
  /\ Len(edges) >= 1
  /\ stateCounter > 0
  /\ newNodes = <<>> /\ newEdges = <<>> /\ newCounter = 0

PositionsKept ==
  \A i \in DOMAIN nodes, j \in DOMAIN nodes' :
    nodes[i].id = nodes'[j].id => nodes'[j].position = nodes[i].position

\* C15: no step other than the publication of an AI batch and the drag of a
\* node changes the position of a state that exists before and after it:
\* manual add, delete, rename, toggle start, toggle accept, drag-connect,
\* edge edit and self-loop leave every position alone.
GesturesKeepPositions ==
  [][(/\ pc = "idle"
      /\ ~\E i \in DOMAIN nodes, p \in DragPositions : onNodeDrag(i, p))
       => PositionsKept]_vars

\* C15 witness: a state the tutor created sits off the grid of the layout,
\* where a drag dropped it, and has been marked accepting by a click, next
\* to a second state and a transition whose symbol was edited.
GesturesKeepPositionsWitness ==
  /\ pc = "idle"
  /\ Len(nodes) = 2
  /\ nodes[1].id.kind = "ai"
  /\ nodes[1].position = OffGrid
  /\ nodes[1].data.isAccept
  /\ \E k \in DOMAIN edges : edges[k].label = "y"

\* the top-left corner the layout of the graph (ns, es) gives node i
layoutPosition(ns, es, i) ==
  [x |-> dagreLayout(ns, es)[i].x - nodeWidth \div 2,
   y |-> dagreLayout(ns, es)[i].y - nodeHeight \div 2]

\* C16: the layout runs once per batch, when the batch is published: the
\* start of the effect and every command leave the published diagram and
\* the positions in the working copy alone (a new state waits at the
\* origin), and the publication gives every state of the result, old or
\* new, its place in one layout of the whole resulting graph.
LayoutOncePerBatch ==
  [][/\ (pc = "idle" /\ pc' = "loop") => (nodes' = nodes /\ newNodes' = nodes)
     /\ (pc = "loop" /\ pc' = "loop") =>
          /\ nodes' = nodes
          /\ \A j \in DOMAIN newNodes' :
               \/ \E i \in DOMAIN newNodes :
                    /\ newNodes[i].id = newNodes'[j].id
                    /\ newNodes[i].position = newNodes'[j].position
               \/ /\ newNodes'[j].position = Origin
                  /\ \A i \in DOMAIN newNodes : newNodes[i].id # newNodes'[j].id
     /\ (pc = "loop" /\ pc' = "idle") =>
          /\ DOMAIN nodes' = DOMAIN newNodes
          /\ edges' = newEdges
          /\ \A i \in DOMAIN newNodes :
               /\ nodes'[i].id = newNodes[i].id
               /\ nodes'[i].position = layoutPosition(newNodes, newEdges, i)]_vars

\* C16 witness: a published batch has moved a hand-made state from where the
\* user had put it to the second rank of the layout, at the end of the
\* transition that leaves the tutor-made state in the first rank.
LayoutOncePerBatchWitness ==
  /\ pc = "idle"
  /\ Len(nodes) = 2
  /\ Len(edges) = 1
  /\ nodes[2].id.kind = "state"
  /\ nodes[2].position = [x |-> nodeWidth + ranksep, y |-> 0]
  /\ nodes[1].id.kind = "ai"
  /\ nodes[1].position = Origin
  /\ edges[1].source = nodes[1].id /\ edges[1].target = nodes[2].id

\* the orders in which n elements can have been added
Orderings(n) ==
  {f \in [1..n -> 1..n] : \A a, b \in 1..n : a # b => f[a] # f[b]}

\* C17 (the claim as stated): the layout of the diagram gives every state
\* the same position whatever the order in which its states and transitions
\* were added and whatever positions the states had before.
LayoutDeterministic ==
  \A f \in Orderings(Len(nodes)), g \in Orderings(Len(edges)),
     prior \in [DOMAIN nodes -> {Origin, OffGrid}] :
    LET reordered == [i \in DOMAIN nodes |->
                        [nodes[f[i]] EXCEPT !.position = prior[i]]]
        reorderedEdges == [k \in DOMAIN edges |-> edges[g[k]]]
    IN \A i \in DOMAIN nodes :
         getLayoutedElements(reordered, reorderedEdges).nodes[i].position
           = getLayoutedElements(nodes, edges).nodes[f[i]].position

Current == [nodes |-> nodes, edges |-> edges]

\* C18: a canvas has at most one pending snapshot timer, a pending timer
\* always holds the nodes and edges the canvas has now (every change has
\* replaced the timer), and the snapshot a timer delivers is the diagram of
\* the canvas at that moment.
SnapshotDebounced ==
  /\ [](/\ Len(timers) <= 1
        /\ \A k \in DOMAIN timers : snapshot(timers[k]) = Current)
  /\ [][onSnapshotTimeout =>
          (canvasContext' = <<Current>> /\ timers' = <<>>)]_vars

\* C18 witness: a snapshot of an earlier diagram was delivered, the diagram
\* has changed since, and one timer is pending for the changed diagram.
SnapshotDebouncedWitness ==
  /\ pc = "idle"
  /\ canvasContext # <<>>
  /\ Len(canvasContext[1].nodes) = 1
  /\ Len(nodes) = 2
  /\ Len(timers) = 1

\* a step of an AI batch, or a step that changes the diagram
Mutating ==
  pc = "loop" \/ pc' = "loop" \/ nodes' # nodes \/ edges' # edges

\* C19: unless the diagram keeps being changed for ever, from some moment on
\* the snapshot the canvas last delivered to onCanvasUpdate is its diagram:
\* the snapshot of the final nodes and edges is delivered after the last
\* change.
SnapshotEventuallyDelivered ==
  (<>[](delivered = <<Current>>)) \/ ([]<><<Mutating>>_vars)

\* C19 witness: after the tutor and the user have each added a state, the
\* canvas has delivered the snapshot of both and no timer is pending.
SnapshotEventuallyDeliveredWitness ==
  /\ pc = "idle"
  /\ Len(nodes) = 2
  /\ nodes[1].id.kind # nodes[2].id.kind
  /\ timers = <<>>
  /\ delivered = <<Current>>

\* C20 (the claim as stated): once no snapshot timer is pending in either
\* canvas and no batch is running, the canvasContext of the page is the
\* nodes and edges of the canvas the user works on.
ContextReflectsCanvas ==
  (pc = "idle" /\ timers = <<>> /\ mirror.timers = <<>>)
    => canvasContext = <<Current>>

\* C21 (the claim as stated): the command loop runs once on every array of
\* commands a chat response delivers: the array the page holds has been
\* applied to the diagram of the canvas at most once.
AppliedOnce == runs <= 1

\* C22: at most one chat request is outstanding, and one is outstanding
\* exactly while isLoading is true; a submit while isLoading is true sends
\* nothing, appends no message and leaves the usage count alone; a request
\* is sent only when none is outstanding.
OneRequestAtATime ==
  /\ [](pending <= 1 /\ (isLoading <=> pending = 1))
  /\ [][(isLoading /\ handleSubmit) =>
          (/\ messages' = messages /\ usage' = usage /\ pending' = pending
           /\ submitted' = "refused")]_vars
  /\ [][pending' > pending => (pending = 0 /\ ~isLoading)]_vars

\* C22 witness: a second request has been sent after the first was
\* answered, and a submit while it is outstanding has been refused.
OneRequestAtATimeWitness ==
  /\ isLoading
  /\ pending = 1
  /\ submitted = "refused"
  /\ Len(messages) = 4
  /\ messages[3] = Reply
  /\ messages[4].role = "user"

\* C23: when a round trip fails (fetch rejects, the status is not a
\* success, the body does not parse) one apology is appended to the
\* conversation and nothing else changes but the loading flag: no commands
\* reach the page, both diagrams stay as they are, and no request is sent
\* in its place; a request is only ever sent by a submit.
FailureApologises ==
  /\ [][\A failure \in Failures :
          handleSubmitFailed(failure) =>
            /\ messages' = Append(messages, Apology)
            /\ pending' = pending - 1
            /\ ~isLoading'
            /\ UNCHANGED <<nodes, edges, stateCounter, mirror, timers,
                           aiDrawCommands, runs, usage>>]_vars
  /\ [][pending' > pending => (handleSubmit /\ ~submitRefused(input, isLoading))]_vars

\* C23 witness: after a reply whose commands drew a state, a second round
\* trip has failed: the apology is the last message, nothing is
\* outstanding, and the diagram still holds the state.
FailureApologisesWitness ==
  /\ Len(messages) = 5
  /\ messages[3] = Reply
  /\ messages[5] = Apology
  /\ pending = 0
  /\ ~isLoading
  /\ Len(nodes) = 1
  /\ aiDrawCommands # <<>>

\* C24: a gesture whose prompt is cancelled changes nothing: after a
\* cancelled add-state, rename by click in edit mode, rename by
\* double-click, drag-connect, edge-symbol edit or add-self-loop the nodes,
\* the edges and the state counter are what they were, and no snapshot
\* timer has been set.
CancelAborts ==
  [][(\/ \E position \in ClickPositions : addState(Null, position)
      \/ \E i \in DOMAIN nodes : mode = "edit" /\ onNodeClick(i, Null)
      \/ \E i \in DOMAIN nodes : onNodeDoubleClick(i, Null)
      \/ \E i, j \in DOMAIN nodes, sh \in SourceHandles, th \in TargetHandles :
           onConnect(i, sh, j, th, Null)
      \/ \E k \in DOMAIN edges : onEdgeClick(k, Null)
      \/ addSelfLoop(Null))
       => UNCHANGED <<nodes, edges, stateCounter, timers, now>>]_vars

\* C24 witness: a diagram in which every one of the prompts can be raised
\* and cancelled: edit mode, two states of which one is selected, and a
\* transition between them.
CancelAbortsWitness ==
  /\ pc = "idle"
  /\ mode = "edit"
  /\ Len(nodes) = 2
  /\ nodes[1].selected
  /\ Len(edges) = 1
  /\ edges[1].source # edges[1].target
  /\ ENABLED onEdgeClick(1, Null)
  /\ ENABLED addSelfLoop(Null)

\* C25: a manual add-state whose answer is empty after trimming, or is a
\* label the diagram already holds, creates nothing and leaves the nodes and
\* the counter alone; any other answer appends one state with the trimmed
\* label, isAccept false, and isStart true exactly when the diagram held no
\* state, and adds one to the counter.
ManualAddRule ==
  [][\A answer \in LabelAnswers \ {Null}, position \in ClickPositions :
       addState(answer, position) =>
         IF trim(answer) = "" \/ trim(answer) \in LabelsOf(nodes)
         THEN nodes' = nodes /\ stateCounter' = stateCounter
         ELSE /\ Len(nodes') = Len(nodes) + 1
              /\ SubSeq(nodes', 1, Len(nodes)) = nodes
              /\ nodes'[Len(nodes')].data =
                   [label |-> trim(answer), isAccept |-> FALSE,
                    isStart |-> (nodes = <<>>)]
              /\ stateCounter' = stateCounter + 1]_vars

\* C25 witness: two states made by hand since the last clear, the first
\* one, added to the empty diagram under a label typed with a blank, is the
\* start state, the second one is not.
ManualAddRuleWitness ==
  /\ pc = "idle"
  /\ Len(nodes) = 2
  /\ Len(idLog) = 2
  /\ nodes[1].id.kind = "state" /\ nodes[2].id.kind = "state"
  /\ nodes[1].data = [label |-> "A", isAccept |-> FALSE, isStart |-> TRUE]
  /\ nodes[2].data = [label |-> "B", isAccept |-> FALSE, isStart |-> FALSE]
  /\ stateCounter = 2

\* C26: a rename (click in edit mode, double-click in any mode) to a label
\* another state holds leaves the diagram as it was; a rename to a free label
\* or to the state's own label changes the label of that state only, and
\* keeps its id, flags, position and every transition.
RenameRule ==
  [][\A i \in 1..Cardinality(Labels), answer \in RenameAnswers \ {Null} :
       ((mode = "edit" /\ onNodeClick(i, answer)) \/ onNodeDoubleClick(i, answer))
         /\ trim(answer) # ""
       => IF \E j \in DOMAIN nodes :
               j # i /\ nodes[j].data.label = trim(answer)
          THEN /\ nodes' = nodes
               /\ edges' = edges
               /\ stateCounter' = stateCounter
          ELSE /\ nodes' = [nodes EXCEPT ![i].data.label = trim(answer)]
               /\ edges' = edges
               /\ stateCounter' = stateCounter]_vars

\* C26 witness: the accept state the tutor drew as B now carries a label
\* only a rename can give, with its id and flag kept and its transition
\* still attached, next to the state A whose label a rename may not take.
RenameRuleWitness ==
  /\ pc = "idle"
  /\ Len(nodes) = 2
  /\ nodes[1].data.label = "A"
  /\ nodes[2].data.label = "C"
  /\ nodes[2].data.isAccept
  /\ nodes[2].id = idLog[2]
  /\ \E e \in Range(edges) : e.source = nodes[1].id /\ e.target = nodes[2].id
  /\ ~ENABLED (onNodeDoubleClick(2, " A") /\ nodes' # nodes)

\* C27: a drag-connect answered with the empty symbol creates no
\* transition, so that no transition with an empty symbol is in the diagram.
EmptySymbolNoTransition ==
  [][\A i, j \in 1..Cardinality(Labels) :
       onConnect(i, "right", j, "top", "") =>
         /\ edges' = edges
         /\ \A k \in DOMAIN edges' : edges'[k].label # ""]_vars

\* C28: the add-self-loop action adds a transition only when exactly one
\* state is selected; with none or with several selected the transitions
\* stay as they are.
SelfLoopNeedsOneSelected ==
  [][\A answer \in GestureSymbols :
       /\ Cardinality({i \in DOMAIN nodes : nodes[i].selected}) # 1
       /\ addSelfLoop(answer)
       => edges' = edges]_vars

\* C29: a command of an unknown type, or one that lacks a required field,
\* is skipped alone: from any point of a batch, what follows gives the same
\* nodes, edges and counter with the command as without it, the command
\* itself writes nothing, and the batch can be finished after it.
MalformedSkipped ==
  /\ [](pc = "loop" =>
         \A bad \in MalformedCommands :
           \A rest \in {<<>>} \cup {<<c>> : c \in SkipCommands} :
             SameDiagram(ApplyBatch(Working, <<bad>> \o rest, now + 1),
                         ApplyBatch(Working, rest, now + 1)))
  /\ []((pc = "loop" /\ outcome = "ignored") => ENABLED EndDrawCommands)
  /\ [][\A bad \in MalformedCommands :
          StepDrawCommand(bad) =>
            /\ outcome' = "ignored"
            /\ pc' = "loop"
            /\ <<newNodes, newEdges, newCounter>>' =
                 <<newNodes, newEdges, newCounter>>
            /\ <<nodes, edges, stateCounter>>' = <<nodes, edges, stateCounter>>]_vars

\* C29 witness: the second or a later command of a batch was malformed and
\* was skipped, after earlier commands had given the working copy a state
\* the diagram does not have, and the batch can go on or be finished.
MalformedSkippedWitness ==
  /\ pc = "loop"
  /\ outcome = "ignored"
  /\ idx = 2
  /\ newNodes # nodes
  /\ LabelsOf(newNodes) = {"A"}
  /\ ENABLED EndDrawCommands
  /\ ENABLED StepDrawCommand([type |-> "addState", label |-> "B",
                              isStart |-> FALSE, isAccept |-> TRUE])

\* C30: a drag-connect from X to Y, or an add-self-loop on X, with the
\* non-empty symbol s adds the transition (X, Y, s) when no transition with
\* that triple exists, whatever other transitions join the two states, and
\* changes nothing when the triple exists.
UserTripleRule ==
  [][/\ \A i, j \in 1..Cardinality(Labels), s \in Symbols :
          onConnect(i, "right", j, "top", s) =>
            IF HasTriple(edges, nodes[i].id, nodes[j].id, s)
            THEN edges' = edges
            ELSE /\ Len(edges') = Len(edges) + 1
                 /\ HasTriple(edges', nodes[i].id, nodes[j].id, s)
     /\ \A s \in Symbols :
          (hasSelected(nodes) /\ addSelfLoop(s)) =>
            LET id == firstSelected(nodes).id
            IN IF HasTriple(edges, id, id, s)
               THEN edges' = edges
               ELSE /\ Len(edges') = Len(edges) + 1
                    /\ HasTriple(edges', id, id, s)]_vars

\* what a diagram is to its reader: the states by label and flags, the
\* transitions by the labels of their ends and their symbol
StatesOf(ns) == {ns[i].data : i \in DOMAIN ns}
LabelOfId(ns, id) ==
  IF \E n \in Range(ns) : n.id = id
  THEN (CHOOSE n \in Range(ns) : n.id = id).data.label
  ELSE Undefined
TransitionsOf(ns, es) ==
  {<<LabelOfId(ns, es[k].source), LabelOfId(ns, es[k].target), es[k].label>> :
     k \in DOMAIN es}
Reading(w) ==
  [states |-> StatesOf(w.nodes), transitions |-> TransitionsOf(w.nodes, w.edges)]
\* the working copies the effect starts with on the empty diagram whose
\* counter is c
EmptyDiagram(c) ==
  [nodes |-> <<>>, edges |-> <<>>, counter |-> safeCounter(c, <<>>),
   outcome |-> "none"]
\* the command lists that follow the clear: none, one command, an addState
\* followed by an addTransition
AfterClear ==
  {<<>>} \cup {<<c>> : c \in BatchCommands}
         \cup {<<AddStateOf(l, FALSE, FALSE), c>> :
                 l \in Labels, c \in AddTransitionCmds}

\* C31: a clearCanvas inside a batch discards everything before it: from any
\* point of a batch on any diagram, clearCanvas followed by a command list
\* gives the states (labels, flags) and transitions (labels, symbol) that
\* the list gives on the empty diagram, so an addTransition after the clear
\* that names a label from before it is skipped.
ClearDiscards ==
  pc = "loop" =>
    /\ \A rest \in AfterClear, c \in 0..1 :
         Reading(ApplyBatch(Working, <<ClearCmd>> \o rest, now + 1)) =
           Reading(ApplyBatch(EmptyDiagram(c), rest, now + 1))
    /\ \A cmd \in AddTransitionCmds :
         ApplyBatch(Working, <<ClearCmd, cmd>>, now + 1).edges = <<>>

\* C31 witness: on a diagram that holds states, the batch has cleared its
\* working copy and then skipped an addTransition that names one of them.
ClearDiscardsWitness ==
  /\ pc = "loop"
  /\ nodes # <<>>
  /\ newNodes = <<>>
  /\ newEdges = <<>>
  /\ idx >= 2
  /\ outcome = "unresolved"

\* every state of ns is in ns2 with its id, label and flags, and every
\* transition of es is in es2 with its id, ends and symbol
Kept(ns, es, ns2, es2) ==
  /\ \A i \in DOMAIN ns :
       \E j \in DOMAIN ns2 : ns2[j].id = ns[i].id /\ ns2[j].data = ns[i].data
  /\ \A k \in DOMAIN es :
       \E m \in DOMAIN es2 :
         /\ es2[m].id = es[k].id
         /\ es2[m].source = es[k].source
         /\ es2[m].target = es[k].target
         /\ es2[m].label = es[k].label

\* C32: a batch without clearCanvas only adds: while it runs its working
\* copies hold every state and transition of the diagram it started from,
\* those made by gestures included, and what it publishes holds them too.
OnlyAdds ==
  /\ [](pc = "loop" => Kept(nodes, edges, newNodes, newEdges))
  /\ [][EndDrawCommands => Kept(nodes, edges, nodes', edges')]_vars

\* C32 witness: a batch has added a transition to a diagram that holds a
\* state the user made and flagged and a transition the user drew.
OnlyAddsWitness ==
  /\ pc = "loop"
  /\ idx >= 1
  /\ Len(newEdges) > Len(edges)
  /\ \E i \in DOMAIN nodes :
       nodes[i].id.kind = "state" /\ nodes[i].data.isAccept
  /\ \E k \in DOMAIN edges : edges[k].id.kind = "reactflow__edge"

\* C33: a batch is atomic for its observers: while the loop runs, the
\* commands change the working copies only and no gesture acts and no
\* snapshot timer is set or fires; the step that ends the loop publishes the
\* nodes, the edges and the counter of the whole batch together, and the one
\* snapshot timer set by it holds that diagram.
BatchAtomic ==
  /\ [][pc = "loop" =>
          \/ /\ pc' = "loop"
             /\ UNCHANGED <<nodes, edges, stateCounter, timers, canvasContext,
                            delivered, mirror>>
          \/ EndDrawCommands]_vars
  /\ [][EndDrawCommands =>
          /\ nodes' = getLayoutedElements(newNodes, newEdges).nodes
          /\ edges' = newEdges
          /\ stateCounter' = newCounter
          /\ Len(timers') = 1
          /\ snapshot(timers'[1]) = [nodes |-> nodes', edges |-> edges']
          /\ UNCHANGED <<canvasContext, delivered>>]_vars

\* C33 witness: two commands of a batch have given the working copy a state
\* the diagram does not have, while the snapshot timer of the diagram the
\* batch started from is still pending.
BatchAtomicWitness ==
  /\ pc = "loop"
  /\ idx = 2
  /\ nodes # <<>>
  /\ Len(newNodes) > Len(nodes)
  /\ Len(timers) = 1
  /\ snapshot(timers[1]) = Current
  /\ ENABLED EndDrawCommands

\* the diagrams of the two canvases as records of nodes and edges
Own == [nodes |-> nodes, edges |-> edges]
Second == [nodes |-> mirror.nodes, edges |-> mirror.edges]
\* no addTransition of the array comes before an addState of a label it names
WellOrdered(cmds) ==
  \A k, m \in DOMAIN cmds :
    (k < m /\ cmds[k].type = "addTransition" /\ cmds[m].type = "addState") =>
      cmds[m].label \notin {cmds[k].from, cmds[k].to}

StartClickNormalises ==
  [][\A i \in DOMAIN nodes :
       (mode = "start" /\ onNodeClick(i, Null)) =>
         /\ Len(nodes') = Len(nodes)
         /\ nodes'[i].data.isStart = ~nodes[i].data.isStart
         /\ \A j \in DOMAIN nodes : j # i => ~nodes'[j].data.isStart
         /\ StartCount(nodes') <= 1
         /\ (StartCount(nodes) = 1 /\ nodes[i].data.isStart) =>
              StartCount(nodes') = 0]_vars

\* C35 witness: in start mode, the state the user made first, which was the
\* start state when it was made, is no start state, and no other state is.
StartClickNormalisesWitness ==
  /\ pc = "idle"
  /\ mode = "start"
  /\ Len(nodes) = 2
  /\ idLog # <<>>
  /\ nodes[1].id = idLog[1]
  /\ nodes[1].id.kind = "state"
  /\ StartCount(nodes) = 0

\* C36: a click in accept mode negates isAccept of the clicked state and
\* changes nothing else: the other states, the id, label, isStart and
\* position of the clicked state, the transitions and the counter stay, and
\* a second toggle of the same state gives back the nodes from before the
\* first.
AcceptToggleOnly ==
  [][\A i \in DOMAIN nodes :
       (mode = "accept" /\ onNodeClick(i, Null)) =>
         /\ nodes' = [nodes EXCEPT
                        ![i].data.isAccept = ~nodes[i].data.isAccept]
         /\ edges' = edges
         /\ stateCounter' = stateCounter
         /\ toggleAccept(nodes', nodes'[i].id) = nodes]_vars

\* C36 witness: in accept mode, the first of two states is an accept state,
\* which only a toggle makes here, sits where the user dragged it and has a
\* transition attached; the other state is no accept state.
AcceptToggleOnlyWitness ==
  /\ pc = "idle"
  /\ mode = "accept"
  /\ Len(nodes) = 2
  /\ nodes[1].data.isAccept
  /\ ~nodes[2].data.isAccept
  /\ nodes[1].position = OffGrid
  /\ \E k \in DOMAIN edges :
       edges[k].source = nodes[1].id /\ edges[k].target = nodes[2].id

\* disabled={isLoading || !problemContext} of the chat box, negated
InputEnabled == ~isLoading /\ problemContext # Null

\* C37: every request that is sent ends the loading phase: the chat is
\* loading only while a request is out, and whenever it is loading, the
\* end of the round trip, be it a reply, a bad status or an exception, sets
\* isLoading to false and enables the chat box again.
LoadingEnds ==
  /\ [](isLoading => pending > 0)
  /\ (isLoading ~> InputEnabled)

\* C37 witness: a request has failed, the apology is the last message, and
\* the chat box takes input again.
LoadingEndsWitness ==
  /\ submitted = "sent"
  /\ pending = 0
  /\ messages[Len(messages)] = Apology
  /\ InputEnabled
  /\ ENABLED setInput("q")

\* C38: a request that is sent appends one user message, its completion
\* appends one assistant message, the reply or the apology, and only a
\* request that is out can complete; commands reach the canvases only in
\* the step that appends a reply, and only as a non-empty array.
RequestMessages ==
  /\ [][pending' > pending =>
          /\ pending' = pending + 1
          /\ messages' = Append(messages, UserMessage(trim(input)))]_vars
  /\ [][pending' < pending =>
          /\ pending' = pending - 1
          /\ \/ messages' = Append(messages, Reply)
             \/ messages' = Append(messages, Apology)]_vars
  /\ [][(\/ aiDrawCommands' # aiDrawCommands
         \/ runs' # runs
         \/ <<nodes, edges, stateCounter, mirror>>' #
              <<nodes, edges, stateCounter, mirror>>) =>
          /\ pending' < pending
          /\ messages' = Append(messages, Reply)
          /\ aiDrawCommands' # <<>>
          /\ runs' = 1]_vars
  /\ [][handleSubmitResolved(<<>>) =>
          UNCHANGED <<nodes, edges, stateCounter, mirror, timers,
                      aiDrawCommands, runs>>]_vars

\* C38 witness: the conversation is the problem's introduction, one user
\* message and the reply to it, whose commands have drawn a state on both
\* canvases.
RequestMessagesWitness ==
  /\ pending = 0
  /\ ~isLoading
  /\ messages = <<ProblemIntro, UserMessage("q"), Reply>>
  /\ aiDrawCommands # <<>>
  /\ runs = 1
  /\ Len(nodes) = 1
  /\ Len(mirror.nodes) = 1

====
